---- MODULE Spec2Model ----
(***************************************************************************)
(* Model of src/webgui/database.py: the SQLite job store of HiAni-DL.      *)
(*                                                                         *)
(* The state is the content of the two tables (jobs, episodes), their      *)
(* AUTOINCREMENT counters, the UTC clock read by datetime.utcnow(), and    *)
(* for every concurrent caller the position inside the store method it is  *)
(* executing.  One step of the model is one database transaction: every    *)
(* method opens its own connection and commits once, except                *)
(*   - finish_job(success=False) and cancel_job, which run update_job      *)
(*     (one connection, one commit) and then cancel_job_episodes (a second *)
(*     connection, a second commit);                                       *)
(*   - delete_all_jobs_except_running, whose SELECT COUNT query runs in    *)
(*     autocommit mode (the sqlite3 module opens its implicit transaction  *)
(*     only before INSERT/UPDATE/DELETE), so the count and the DELETE are  *)
(*     two transactions of the same connection.                            *)
(* No connection issues PRAGMA foreign_keys=ON, so SQLite does not enforce *)
(* the FOREIGN KEY ... ON DELETE CASCADE clause of the episodes table.     *)
(*                                                                         *)
(* A statement may also fail: sqlite3 raises OperationalError when the    *)
(* store stays locked by another connection beyond the 30 s timeout, and   *)
(* when ALTER TABLE adds a column the table already has.                   *)
(*                                                                         *)
(* Timestamps (isoformat strings, ordered as the instants they denote) are *)
(* modelled by the value of the clock, 1..MaxTime.                         *)
(***************************************************************************)
EXTENDS Integers, Sequences, FiniteSets, TLC

\* ---------------------------------------------------------------- bounds
NumCallers == 2
MaxJobs == 2
MaxEpisodes == 2
MaxTime == 2

Callers == 1..NumCallers
JobIds == 1..MaxJobs
EpisodeIds == 1..MaxEpisodes

\* ------------------------------------------------------------ SQL values
\* NULL in an INTEGER or timestamp column; None in a TEXT column.
NULL == -1
None == "None"

\* class JobStatus
QUEUED == "queued"
RUNNING == "running"
SUCCESS == "success"
FAILED == "failed"
CANCELED == "canceled"
JobStatus == {QUEUED, RUNNING, SUCCESS, FAILED, CANCELED}

\* class JobStage
INIT == "init"
RESOLVE == "resolve"
DOWNLOAD == "download"
POSTPROCESS == "postprocess"
DONE == "done"

\* STAGE_PROGRESS[JobStage.INIT]
STAGE_PROGRESS_INIT == 5

\* class EpisodeStatus (FAILED has the same value as JobStatus.FAILED)
PENDING == "pending"
GET_STREAM == "get_stream"
DOWNLOAD_VIDEO == "download_video"
MERGE_VIDEO == "merge_video"
DOWNLOAD_SUBTITLES == "download_subtitles"
COMPLETE == "complete"
EpisodeStatus ==
  {PENDING, GET_STREAM, DOWNLOAD_VIDEO, MERGE_VIDEO, DOWNLOAD_SUBTITLES,
   COMPLETE, FAILED}
ActiveEpisodeStatus ==
  {GET_STREAM, DOWNLOAD_VIDEO, MERGE_VIDEO, DOWNLOAD_SUBTITLES}

\* Database.VALID_COLUMNS
VALID_COLUMNS ==
  {"url", "profile", "extra_args", "status", "stage", "progress_percent",
   "progress_text", "created_at", "started_at", "finished_at",
   "error_message", "log_file", "pid"}

CANCEL_MESSAGE == "Job was cancelled"

VARIABLES
  jobs,          \* table jobs: id -> row
  jobs_seq,      \* AUTOINCREMENT counter of jobs (sqlite_sequence)
  episodes,      \* table episodes: id -> row
  episodes_seq,  \* AUTOINCREMENT counter of episodes
  now,           \* the clock read by datetime.utcnow()
  pc,            \* per caller: the method step it is about to run
  arg,           \* per caller: the local variables of the running method
  last,          \* the transaction executed last and what it returned
  calls,         \* the number of method calls made so far
  schema         \* the columns of table episodes in the database file

vars == <<jobs, jobs_seq, episodes, episodes_seq, now, pc, arg, last, calls, schema>>

\* ------------------------------------------------------- inputs of calls
\* The values callers pass; one representative per argument the code
\* treats alike.
URL == "http://x"
Pids == {4242}
LOG_FILE == "job.log"
Percents == {50}
Stages == {None, DOWNLOAD}
ErrorMessages == {None, "boom"}
\* statuses passed to update_episode: the four active statuses are treated
\* alike by update_episode and by the cascade, and GET_STREAM stands for them
StatusUpdates == {GET_STREAM, COMPLETE, FAILED}
\* field maps passed to the generic update_job(job_id, **kwargs)
EmptyMap == [x \in {} |-> None]
UpdateKwargs ==
  { EmptyMap,
    [status |-> QUEUED],
    [status |-> RUNNING, progress_percent |-> 50],
    [bogus_field |-> 1],
    [bogus_field |-> 1, status |-> SUCCESS, progress_percent |-> 50] }

\* ---------------------------------------------------------------- schema
\* SQLite's foreign-key enforcement is off unless a connection turns it on
\* with PRAGMA foreign_keys=ON; the store issues journal_mode and
\* busy_timeout only.
foreign_keys == FALSE

\* the columns CREATE TABLE IF NOT EXISTS gives a new table episodes
episodes_columns ==
  {"id", "job_id", "episode_number", "title", "status", "progress_percent",
   "stage_data", "error_message", "started_at", "finished_at"}

\* the columns init_db adds with ALTER TABLE episodes ADD COLUMN, in order
migrations == <<"stage_data", "log_file">>

\* the largest element of a finite set of naturals, 0 for the empty set
Max(S) == IF S = {} THEN 0 ELSE CHOOSE x \in S : \A y \in S : y <= x

\* id INTEGER PRIMARY KEY without AUTOINCREMENT: one more than the largest
\* rowid now in the table.
rowid_of_largest_row(tbl, seq) == Max(DOMAIN tbl) + 1

\* id INTEGER PRIMARY KEY AUTOINCREMENT: one more than the largest rowid the
\* table has ever held, which sqlite_sequence records
autoincrement(tbl, seq) == Max(DOMAIN tbl \cup {seq}) + 1

\* INSERT INTO jobs (url, profile, extra_args, status, created_at): the other
\* columns take their schema defaults.
create_job_row(url, profile, extra_args, t) ==
  [ url |-> url, profile |-> profile, extra_args |-> extra_args,
    status |-> QUEUED, stage |-> None, progress_percent |-> 0,
    progress_text |-> None, created_at |-> t, started_at |-> NULL,
    finished_at |-> NULL, error_message |-> None, log_file |-> None,
    pid |-> NULL ]

\* INSERT INTO episodes (job_id, episode_number, title, status,
\* progress_percent)
create_episode_row(job_id, episode_number, title) ==
  [ job_id |-> job_id, episode_number |-> episode_number, title |-> title,
    status |-> PENDING, progress_percent |-> 0, stage_data |-> None,
    error_message |-> None, started_at |-> NULL, finished_at |-> NULL,
    log_file |-> None ]

\* UPDATE t SET k1 = ?, k2 = ? ... on one row
SetColumns(row, updates) ==
  [col \in DOMAIN row |->
     IF col \in DOMAIN updates THEN updates[col] ELSE row[col]]

\* --------------------------------------------------------------- init_db
OK == "ok"
DUPLICATE == "OperationalError: duplicate column name"
BUSY == "OperationalError: database is locked"

\* what ALTER TABLE episodes ADD COLUMN col does on a table with columns cols:
\* the column exists, or it is added, or the store stays locked by another
\* connection beyond the timeout
alter_outcomes(cols, col) == IF col \in cols THEN {DUPLICATE} ELSE {OK, BUSY}

\* except aiosqlite.OperationalError: pass
migration_suppresses(outcome) == outcome \in {DUPLICATE, BUSY}

\* the columns of episodes after one migration step
alter_table(cols, col, outcome) == IF outcome = OK THEN cols \cup {col} ELSE cols

\* ------------------------------------------------------------ update_job
invalid_columns(kwargs) == DOMAIN kwargs \ VALID_COLUMNS

\* update_job raises ValueError (before it opens a connection)
update_job_raises(kwargs) ==
  DOMAIN kwargs # {} /\ invalid_columns(kwargs) # {}

\* A validation that drops the unknown names and writes the rest.
update_job_partial(tbl, job_id, kwargs) ==
  IF DOMAIN kwargs = {} THEN tbl
  ELSE [i \in DOMAIN tbl |->
          IF i = job_id
            THEN SetColumns(tbl[i],
                   [k \in DOMAIN kwargs \cap VALID_COLUMNS |-> kwargs[k]])
            ELSE tbl[i]]

\* The jobs table after update_job(job_id, **kwargs)
update_job(tbl, job_id, kwargs) ==
  IF DOMAIN kwargs = {} THEN tbl
  ELSE IF invalid_columns(kwargs) # {} THEN tbl
  ELSE [i \in DOMAIN tbl |->
          IF i = job_id THEN SetColumns(tbl[i], kwargs) ELSE tbl[i]]

\* update_progress: the field map it hands to update_job
update_progress_updates(percent, stage, text) ==
  LET u0 == [progress_percent |-> percent]
      u1 == IF stage # None THEN [stage |-> stage] @@ u0 ELSE u0
  IN IF text # None THEN [progress_text |-> text] @@ u1 ELSE u1

\* A start_job that also marks the job running.
start_job_updates_sets_status(pid, log_file) ==
  [pid |-> pid, log_file |-> log_file, stage |-> INIT,
   progress_percent |-> STAGE_PROGRESS_INIT, status |-> RUNNING]

\* start_job: the field map it hands to update_job
start_job_updates(pid, log_file) ==
  [pid |-> pid, log_file |-> log_file, stage |-> INIT,
   progress_percent |-> STAGE_PROGRESS_INIT]

\* A finish_job that does not record the error message.
finish_job_updates_no_message(success, error_message, t) ==
  [status |-> IF success THEN SUCCESS ELSE FAILED,
   finished_at |-> t,
   progress_percent |-> IF success THEN 100 ELSE NULL,
   stage |-> IF success THEN DONE ELSE None]

\* finish_job: the field map it hands to update_job
finish_job_updates(success, error_message, t) ==
  [status |-> IF success THEN SUCCESS ELSE FAILED,
   finished_at |-> t,
   error_message |-> error_message,
   progress_percent |-> IF success THEN 100 ELSE NULL,
   stage |-> IF success THEN DONE ELSE None]

\* cancel_job: the field map it hands to update_job
cancel_job_updates(t) == [status |-> CANCELED, finished_at |-> t]

\* ------------------------------------------------------------- claim_job
\* A claim whose UPDATE tests the id alone.
claim_where_any_status(tbl, i, job_id) == i = job_id

\* A claim that also takes a job that is already running.
claim_where_not_finished(tbl, i, job_id) ==
  i = job_id /\ tbl[i].status \in {QUEUED, RUNNING}

\* WHERE id = ? AND status = 'queued'
claim_where(tbl, i, job_id) == i = job_id /\ tbl[i].status = QUEUED

\* cursor.rowcount of the UPDATE
claim_job_rowcount(tbl, job_id) ==
  Cardinality({i \in DOMAIN tbl : claim_where(tbl, i, job_id)})

\* A claim that sets the status and not started_at.
claim_job_update_status_only(tbl, job_id, t) ==
  [i \in DOMAIN tbl |->
     IF claim_where(tbl, i, job_id)
       THEN [tbl[i] EXCEPT !.status = RUNNING]
       ELSE tbl[i]]

\* UPDATE jobs SET status = 'running', started_at = now WHERE ...
claim_job_update(tbl, job_id, t) ==
  [i \in DOMAIN tbl |->
     IF claim_where(tbl, i, job_id)
       THEN [tbl[i] EXCEPT !.status = RUNNING, !.started_at = t]
       ELSE tbl[i]]

\* ------------------------------------------------------- get_active_jobs
\* WHERE status IN ('queued', 'running')
active_where(row) == row.status \in {QUEUED, RUNNING}

\* The order of get_jobs: ORDER BY created_at DESC.
active_order_desc(a, b) == a.created_at >= b.created_at

\* ORDER BY created_at ASC: row a may come before row b
active_order(a, b) == a.created_at <= b.created_at

\* The row lists the SELECT may return: the matching rows, each once, in an
\* order that agrees with ORDER BY (rows with equal keys come in any order).
get_active_jobs(tbl) ==
  LET match == {i \in DOMAIN tbl : active_where(tbl[i])}
      n == Cardinality(match)
  IN { s \in [1..n -> match] :
         /\ \A a, b \in 1..n : a # b => s[a] # s[b]
         /\ \A a, b \in 1..n : a < b => active_order(tbl[s[a]], tbl[s[b]]) }

\* ---------------------------------------- delete_all_jobs_except_running
\* SELECT COUNT FROM jobs WHERE status = 'running'
count_running(tbl) == Cardinality({i \in DOMAIN tbl : tbl[i].status = RUNNING})

\* A purge that spares every active job, the queued ones too.
delete_where_inactive(tbl) ==
  {i \in DOMAIN tbl : tbl[i].status \notin {QUEUED, RUNNING}}

\* the rows DELETE FROM jobs WHERE status != 'running' removes
delete_where(tbl) == {i \in DOMAIN tbl : tbl[i].status # RUNNING}

\* the jobs table after the DELETE
delete_jobs(tbl) == [i \in DOMAIN tbl \ delete_where(tbl) |-> tbl[i]]

\* the episodes table after the DELETE: ON DELETE CASCADE acts only when
\* foreign-key enforcement is on
delete_cascade(etbl, deleted) ==
  IF foreign_keys
    THEN [e \in {x \in DOMAIN etbl : etbl[x].job_id \notin deleted} |-> etbl[e]]
    ELSE etbl

\* -------------------------------------------------------- update_episode
\* the dict `updates` that update_episode builds, later keys overriding
update_episode_updates(status, progress_percent, error_message, stage_data, log_file, t) ==
  LET u0 == IF status # None THEN [status |-> status] ELSE EmptyMap
      u1 == IF status = None THEN u0
            ELSE IF status = COMPLETE
              THEN [finished_at |-> t, progress_percent |-> 100] @@ u0
            ELSE IF status \in ActiveEpisodeStatus
              THEN (IF "started_at" \notin DOMAIN u0
                      THEN [started_at |-> t] @@ u0 ELSE u0)
            ELSE IF status = FAILED
              THEN [finished_at |-> t] @@ u0
            ELSE u0
      u2 == IF progress_percent # NULL
              THEN [progress_percent |-> progress_percent] @@ u1 ELSE u1
      u3 == IF error_message # None
              THEN [error_message |-> error_message] @@ u2 ELSE u2
      u4 == IF stage_data # None
              THEN [stage_data |-> <<"json", stage_data>>] @@ u3 ELSE u3
  IN IF log_file # None THEN [log_file |-> log_file] @@ u4 ELSE u4

\* the episodes table after update_episode
update_episode(etbl, episode_id, updates) ==
  IF DOMAIN updates = {} THEN etbl
  ELSE [e \in DOMAIN etbl |->
          IF e = episode_id THEN SetColumns(etbl[e], updates) ELSE etbl[e]]

\* --------------------------------------------------- cancel_job_episodes
\* A cascade that fails the unfinished episodes of every job.
cancel_where_any_job(row, job_id) == row.status \notin {COMPLETE, FAILED}

\* A cascade that fails only the episodes still pending.
cancel_where_pending_only(row, job_id) ==
  row.job_id = job_id /\ row.status = PENDING

\* A cascade that spares only the completed episodes.
cancel_where_not_complete(row, job_id) ==
  row.job_id = job_id /\ row.status # COMPLETE

\* WHERE job_id = ? AND status NOT IN ('complete', 'failed')
cancel_where(row, job_id) ==
  row.job_id = job_id /\ row.status \notin {COMPLETE, FAILED}

\* the episodes table after cancel_job_episodes(job_id)
cancel_job_episodes(etbl, job_id, t) ==
  [e \in DOMAIN etbl |->
     IF cancel_where(etbl[e], job_id)
       THEN [etbl[e] EXCEPT !.status = FAILED,
                            !.error_message = CANCEL_MESSAGE,
                            !.finished_at = t]
       ELSE etbl[e]]

\* ------------------------------------------------------------ the system
\* names of the methods whose calls take two transactions, as `last` and `arg`
\* record them
FINISH_SUCCESS == "finish_job(success=True)"
FINISH_FAILURE == "finish_job(success=False)"
CANCEL == "cancel_job"
DELETE_ALL == "delete_all_jobs_except_running"

Idle == [op |-> "idle", job |-> 0, val |-> 0, pre |-> FALSE]

Init ==
  /\ jobs = EmptyMap
  /\ jobs_seq = 0
  /\ episodes = EmptyMap
  /\ episodes_seq = 0
  /\ now = 1
  /\ pc = [c \in Callers |-> "idle"]
  /\ arg = [c \in Callers |-> Idle]
  /\ last = [op |-> "init_db", caller |-> 0, job |-> 0, returned |-> TRUE, ret |-> None]
  /\ calls = 0
  /\ schema = episodes_columns \cup {migrations[i] : i \in DOMAIN migrations}

\* The transaction that ends a method: the caller is idle again, and `last`
\* names the method and what it returned (last.caller names the caller of a
\* method that has transactions left to run, and is 0 once it has returned).
Returns(c, op, job, ret) ==
  /\ pc' = [pc EXCEPT ![c] = "idle"]
  /\ arg' = [arg EXCEPT ![c] = Idle]
  /\ last' = [op |-> op, caller |-> 0, job |-> job, returned |-> TRUE, ret |-> ret]

\* datetime.utcnow() moves on between two reads, or does not
Tick ==
  /\ now < MaxTime
  /\ now' = now + 1
  /\ UNCHANGED <<jobs, jobs_seq, episodes, episodes_seq, pc, arg, last, schema>>

CreateJob(c) ==
  LET id == autoincrement(jobs, jobs_seq)
  IN /\ pc[c] = "idle"
     /\ id <= MaxJobs
     /\ jobs_seq' = id
     /\ jobs' = (id :> create_job_row(URL, None, None, now)) @@ jobs
     /\ Returns(c, "create_job", id, id)
     /\ UNCHANGED <<episodes, episodes_seq, now, schema>>

UpdateJob(c, job_id, kwargs) ==
  /\ pc[c] = "idle"
  /\ jobs' = update_job(jobs, job_id, kwargs)
  /\ Returns(c, "update_job", job_id,
             [kwargs |-> kwargs,
              raised |-> IF update_job_raises(kwargs) THEN "ValueError" ELSE None])
  /\ UNCHANGED <<jobs_seq, episodes, episodes_seq, now, schema>>

UpdateProgress(c, job_id, percent, stage, text) ==
  /\ pc[c] = "idle"
  /\ jobs' = update_job(jobs, job_id, update_progress_updates(percent, stage, text))
  /\ Returns(c, "update_progress", job_id, None)
  /\ UNCHANGED <<jobs_seq, episodes, episodes_seq, now, schema>>

ClaimJob(c, job_id) ==
  /\ pc[c] = "idle"
  /\ jobs' = claim_job_update(jobs, job_id, now)
  /\ Returns(c, "claim_job", job_id, claim_job_rowcount(jobs, job_id) > 0)
  /\ UNCHANGED <<jobs_seq, episodes, episodes_seq, now, schema>>

\* claim_job as concurrent callers run it: the call is issued (the connection
\* is opened; arg.pre records whether the job is QUEUED at that moment) ...
ClaimCall(c, job_id) ==
  /\ pc[c] = "idle"
  /\ pc' = [pc EXCEPT ![c] = "claim_job"]
  /\ arg' = [arg EXCEPT ![c] =
              [op |-> "claim_job", job |-> job_id, val |-> 0,
               pre |-> job_id \in DOMAIN jobs /\ jobs[job_id].status = QUEUED]]
  /\ UNCHANGED <<jobs, jobs_seq, episodes, episodes_seq, now, last, schema>>

\* ... and its UPDATE and commit run as one transaction; the caller then holds
\* the returned value
ClaimExec(c) ==
  /\ pc[c] = "claim_job"
  /\ jobs' = claim_job_update(jobs, arg[c].job, now)
  /\ pc' = [pc EXCEPT ![c] = "returned"]
  /\ arg' = [arg EXCEPT ![c].val = claim_job_rowcount(jobs, arg[c].job) > 0]
  /\ last' = [op |-> "claim_job", caller |-> 0, job |-> arg[c].job, returned |-> TRUE,
              ret |-> claim_job_rowcount(jobs, arg[c].job) > 0]
  /\ UNCHANGED <<jobs_seq, episodes, episodes_seq, now, schema>>

StartJob(c, job_id, pid, log_file) ==
  /\ pc[c] = "idle"
  /\ jobs' = update_job(jobs, job_id, start_job_updates(pid, log_file))
  /\ Returns(c, "start_job", job_id, None)
  /\ UNCHANGED <<jobs_seq, episodes, episodes_seq, now, schema>>

\* finish_job: the update_job transaction; a failed job goes on to the cascade
FinishJob(c, job_id, success, error_message) ==
  /\ pc[c] = "idle"
  /\ jobs' = update_job(jobs, job_id, finish_job_updates(success, error_message, now))
  /\ IF success
       THEN Returns(c, FINISH_SUCCESS, job_id, None)
       ELSE /\ pc' = [pc EXCEPT ![c] = "cancel_job_episodes"]
            /\ arg' = [arg EXCEPT ![c] =
                        [op |-> FINISH_FAILURE, job |-> job_id, val |-> 0, pre |-> FALSE]]
            /\ last' = [op |-> FINISH_FAILURE, caller |-> c, job |-> job_id,
                        returned |-> FALSE, ret |-> None]
  /\ UNCHANGED <<jobs_seq, episodes, episodes_seq, now, schema>>

\* cancel_job: the update_job transaction
CancelJob(c, job_id) ==
  /\ pc[c] = "idle"
  /\ jobs' = update_job(jobs, job_id, cancel_job_updates(now))
  /\ pc' = [pc EXCEPT ![c] = "cancel_job_episodes"]
  /\ arg' = [arg EXCEPT ![c] = [op |-> CANCEL, job |-> job_id, val |-> 0, pre |-> FALSE]]
  /\ last' = [op |-> CANCEL, caller |-> c, job |-> job_id, returned |-> FALSE, ret |-> None]
  /\ UNCHANGED <<jobs_seq, episodes, episodes_seq, now, schema>>

\* the cascade transaction of finish_job(success=False) and cancel_job, after
\* which the method returns
CancelJobEpisodes(c) ==
  /\ pc[c] = "cancel_job_episodes"
  /\ episodes' = cancel_job_episodes(episodes, arg[c].job, now)
  /\ Returns(c, arg[c].op, arg[c].job, None)
  /\ UNCHANGED <<jobs, jobs_seq, episodes_seq, now, schema>>

\* finish_job(success=False) and cancel_job on a store that may be busy: the
\* update_job transaction commits (arg.val keeps the tables as they were when
\* the method was called) ...
FinishOrCancelJob(c, job_id, op, error_message) ==
  /\ pc[c] = "idle"
  /\ op \in {FINISH_FAILURE, CANCEL}
  /\ jobs' = update_job(jobs, job_id,
               IF op = CANCEL THEN cancel_job_updates(now)
               ELSE finish_job_updates(FALSE, error_message, now))
  /\ pc' = [pc EXCEPT ![c] = "cancel_job_episodes"]
  /\ arg' = [arg EXCEPT ![c] =
              [op |-> op, job |-> job_id,
               val |-> [jobs |-> jobs, episodes |-> episodes], pre |-> FALSE]]
  /\ last' = [op |-> op, caller |-> c, job |-> job_id, returned |-> FALSE, ret |-> None]
  /\ UNCHANGED <<jobs_seq, episodes, episodes_seq, now, schema>>

\* ... or its UPDATE raises, which update_job and the method pass on to the
\* caller
FinishOrCancelJobBusy(c, job_id, op) ==
  /\ pc[c] = "idle"
  /\ op \in {FINISH_FAILURE, CANCEL}
  /\ Returns(c, op, job_id, BUSY)
  /\ UNCHANGED <<jobs, jobs_seq, episodes, episodes_seq, now, schema>>

\* the UPDATE of the cascade raises: cancel_job_episodes, and finish_job or
\* cancel_job, pass the error on to the caller
CancelJobEpisodesBusy(c) ==
  /\ pc[c] = "cancel_job_episodes"
  /\ Returns(c, arg[c].op, arg[c].job, BUSY)
  /\ UNCHANGED <<jobs, jobs_seq, episodes, episodes_seq, now, schema>>

GetActiveJobs(c) ==
  /\ pc[c] = "idle"
  /\ \E rows \in get_active_jobs(jobs) : Returns(c, "get_active_jobs", 0, rows)
  /\ UNCHANGED <<jobs, jobs_seq, episodes, episodes_seq, now, schema>>

\* delete_all_jobs_except_running: the SELECT COUNT statement
DeleteCount(c) ==
  /\ pc[c] = "idle"
  /\ pc' = [pc EXCEPT ![c] = "delete"]
  /\ arg' = [arg EXCEPT ![c] = [op |-> DELETE_ALL, job |-> 0,
                                val |-> count_running(jobs), pre |-> FALSE]]
  /\ last' = [op |-> DELETE_ALL, caller |-> c, job |-> 0, returned |-> FALSE, ret |-> None]
  /\ UNCHANGED <<jobs, jobs_seq, episodes, episodes_seq, now, schema>>

\* delete_all_jobs_except_running: the DELETE statement and the commit
DeleteJobs(c) ==
  /\ pc[c] = "delete"
  /\ jobs' = delete_jobs(jobs)
  /\ episodes' = delete_cascade(episodes, delete_where(jobs))
  /\ Returns(c, DELETE_ALL, 0,
             <<Cardinality(delete_where(jobs)), arg[c].val>>)
  /\ UNCHANGED <<jobs_seq, episodes_seq, now, schema>>

CreateEpisode(c, job_id, episode_number) ==
  /\ pc[c] = "idle"
  /\ episodes_seq < MaxEpisodes
  /\ IF foreign_keys /\ job_id \notin DOMAIN jobs
       THEN /\ Returns(c, "create_episode", job_id, "IntegrityError")
            /\ UNCHANGED <<episodes, episodes_seq>>
       ELSE /\ episodes_seq' = episodes_seq + 1
            /\ episodes' = (episodes_seq + 1 :>
                              create_episode_row(job_id, episode_number, "title"))
                           @@ episodes
            /\ Returns(c, "create_episode", job_id, episodes_seq + 1)
  /\ UNCHANGED <<jobs, jobs_seq, now, schema>>

UpdateEpisode(c, episode_id, status, progress_percent, error_message) ==
  /\ pc[c] = "idle"
  /\ episodes' = update_episode(episodes, episode_id,
                   update_episode_updates(status, progress_percent, error_message,
                                          None, None, now))
  /\ Returns(c, "update_episode", episode_id, None)
  /\ UNCHANGED <<jobs, jobs_seq, episodes_seq, now, schema>>

\* init_db: CREATE TABLE IF NOT EXISTS (which raises when it has to write and
\* the store is locked), then the two migration steps, each inside its own
\* try/except, then the commit.  The method raises the first error that no
\* except clause suppresses.
InitDb(c, create, o1, o2) ==
  LET s0 == IF schema = {} /\ create = OK THEN episodes_columns ELSE schema
      s1 == alter_table(s0, migrations[1], o1)
      s2 == alter_table(s1, migrations[2], o2)
      raise1 == o1 # OK /\ ~migration_suppresses(o1)
      raise2 == o2 # OK /\ ~migration_suppresses(o2)
  IN /\ pc[c] = "idle"
     /\ create \in (IF schema = {} THEN {OK, BUSY} ELSE {OK})
     /\ o1 \in alter_outcomes(s0, migrations[1])
     /\ o2 \in alter_outcomes(s1, migrations[2])
     /\ schema' = IF create # OK THEN schema ELSE IF raise1 THEN s1 ELSE s2
     /\ Returns(c, "init_db", 0,
                IF create # OK THEN create
                ELSE IF raise1 THEN o1 ELSE IF raise2 THEN o2 ELSE None)
     /\ UNCHANGED <<jobs, jobs_seq, episodes, episodes_seq, now>>

\* A step that begins a method call, while fewer than `max` have been made.
Begins(max) == calls < max /\ calls' = calls + 1

\* A step inside a call already begun, or of the clock.
Continues == calls' = calls

\* ------------------------------------------------- C1: the claim race
\* Jobs are created and callers each issue one claim_job, on any job id, in
\* any interleaving.
NextClaim ==
  \/ Tick /\ Continues
  \/ \E c \in Callers : CreateJob(c) /\ Continues
  \/ \E c \in Callers, j \in JobIds : ClaimCall(c, j) /\ Continues
  \/ \E c \in Callers : ClaimExec(c) /\ Continues

SpecClaim == Init /\ [][NextClaim]_vars

\* the callers that have called claim_job(j), and those it has returned True
\* and False to
Claimants(j) ==
  {c \in Callers : pc[c] \in {"claim_job", "returned"} /\ arg[c].job = j}
Winners(j) == {c \in Claimants(j) : pc[c] = "returned" /\ arg[c].val = TRUE}
Losers(j) == {c \in Claimants(j) : pc[c] = "returned" /\ arg[c].val = FALSE}

\* C1: of the callers that call claim_job on the same job, at most one has
\* been answered True at any time; when the job was QUEUED as a call was issued
\* and all the calls have returned, exactly one has True, all the others have
\* False, and the job is RUNNING.
C1_ExactlyOneWinner ==
  \A j \in DOMAIN jobs :
    /\ Cardinality(Winners(j)) <= 1
    /\ ( /\ \E c \in Claimants(j) : arg[c].pre
         /\ \A c \in Claimants(j) : pc[c] = "returned" ) =>
         /\ Cardinality(Winners(j)) = 1
         /\ Losers(j) = Claimants(j) \ Winners(j)
         /\ jobs[j].status = RUNNING

\* every caller claimed the same job and all have returned
C1_Witness ==
  \E j \in DOMAIN jobs :
    /\ Claimants(j) = Callers
    /\ \A c \in Callers : pc[c] = "returned" /\ arg[c].pre
    /\ Cardinality(Winners(j)) = 1

\* ------------------------------------- C2, C3: the episode cascade -
MaxCascadeCalls == 4

\* Jobs and episodes are created, episodes change status, and jobs are failed
\* and cancelled, by any caller in any interleaving of their transactions.
NextCascade ==
  \/ \E c \in Callers : CreateJob(c) /\ Begins(MaxCascadeCalls)
  \/ \E c \in Callers, j \in JobIds : CreateEpisode(c, j, 1) /\ Begins(MaxCascadeCalls)
  \/ \E c \in Callers, e \in EpisodeIds, st \in StatusUpdates :
       UpdateEpisode(c, e, st, NULL, None) /\ Begins(MaxCascadeCalls)
  \/ \E c \in Callers, j \in JobIds, m \in ErrorMessages \ {None} :
       FinishJob(c, j, FALSE, m) /\ Begins(MaxCascadeCalls)
  \/ \E c \in Callers, j \in JobIds : CancelJob(c, j) /\ Begins(MaxCascadeCalls)
  \/ \E c \in Callers : CancelJobEpisodes(c) /\ Continues

SpecCascade == Init /\ [][NextCascade]_vars
TerminalEpisode == {COMPLETE, FAILED}

\* C2: in the state in which finish_job(id, success=False) or cancel_job(id)
\* returns, every episode of job id is COMPLETE or FAILED.
C2_NoDanglingEpisode ==
  (last.op \in {FINISH_FAILURE, CANCEL} /\ last.returned) =>
    \A e \in DOMAIN episodes :
      episodes[e].job_id = last.job => episodes[e].status \in TerminalEpisode

\* cancel_job or finish_job(success=False) has returned, on an existing job,
\* and its cascade failed an episode
C2_Witness ==
  /\ last.op \in {FINISH_FAILURE, CANCEL} /\ last.returned
  /\ last.job \in DOMAIN jobs
  /\ \E e \in DOMAIN episodes :
       /\ episodes[e].job_id = last.job
       /\ episodes[e].status = FAILED
       /\ episodes[e].error_message = CANCEL_MESSAGE

\* C3: in every reachable state a job that is FAILED or CANCELED has no
\* episode in a status other than COMPLETE or FAILED.
C3_NoTerminalJobWithActiveEpisode ==
  \A j \in DOMAIN jobs :
    jobs[j].status \in {FAILED, CANCELED} =>
      \A e \in DOMAIN episodes :
        episodes[e].job_id = j => episodes[e].status \in TerminalEpisode

\* --------------------------------------------- C5: the cascade transaction
MaxFrameCalls == 4

\* one caller, whose calls run one after another
Solo == CHOOSE c \in Callers : TRUE

\* The same methods called by one caller while the clock advances, so that
\* the rows a cascade writes differ from the rows written before it.
NextFrame ==
  \/ Tick /\ Continues
  \/ CreateJob(Solo) /\ Begins(MaxFrameCalls)
  \/ \E j \in JobIds : CreateEpisode(Solo, j, 1) /\ Begins(MaxFrameCalls)
  \/ \E e \in EpisodeIds, st \in StatusUpdates :
       UpdateEpisode(Solo, e, st, NULL, None) /\ Begins(MaxFrameCalls)
  \/ \E j \in JobIds, m \in ErrorMessages \ {None} :
       FinishJob(Solo, j, FALSE, m) /\ Begins(MaxFrameCalls)
  \/ \E j \in JobIds : CancelJob(Solo, j) /\ Begins(MaxFrameCalls)
  \/ CancelJobEpisodes(Solo) /\ Continues

SpecFrame == Init /\ [][NextFrame]_vars

\* C5: the cascade transaction of cancel_job(id) and finish_job(id,
\* success=False) changes exactly the episodes of job id that are neither
\* COMPLETE nor FAILED, makes each FAILED with error_message "Job was
\* cancelled" and a finished_at, and leaves the status, error_message and
\* finished_at of every other episode as they were.
C5_CascadeFrame ==
  [][ \A c \in Callers :
        (pc[c] = "cancel_job_episodes" /\ pc'[c] = "idle") =>
          /\ DOMAIN episodes' = DOMAIN episodes
          /\ \A e \in DOMAIN episodes :
               IF episodes[e].job_id = arg[c].job
                  /\ episodes[e].status \notin TerminalEpisode
                 THEN /\ episodes'[e] # episodes[e]
                      /\ episodes'[e].status = FAILED
                      /\ episodes'[e].error_message = CANCEL_MESSAGE
                      /\ episodes'[e].finished_at # NULL
                 ELSE /\ episodes'[e] = episodes[e]
                      /\ episodes'[e].status = episodes[e].status
                      /\ episodes'[e].error_message = episodes[e].error_message
                      /\ episodes'[e].finished_at = episodes[e].finished_at
    ]_vars

\* cancel_job returned on a job with an episode that was COMPLETE before the
\* clock moved on, which kept its row, and another that the cascade failed
C5_Witness ==
  /\ last.op \in {FINISH_FAILURE, CANCEL} /\ last.returned
  /\ \E e1, e2 \in DOMAIN episodes :
       /\ episodes[e1].job_id = last.job
       /\ episodes[e1].status = COMPLETE
       /\ episodes[e1].error_message = None
       /\ episodes[e1].finished_at < now
       /\ episodes[e2].job_id = last.job
       /\ episodes[e2].status = FAILED
       /\ episodes[e2].error_message = CANCEL_MESSAGE
       /\ episodes[e2].finished_at = now
\* C17: cancel_job_episodes(id) run on a job none of whose episodes is in a
\* status other than COMPLETE or FAILED changes no episode row, and a cascade
\* run again on what a cascade has written, at any later time, changes nothing.
C17_CascadeIdempotent ==
  [][ \A c \in Callers :
        (pc[c] = "cancel_job_episodes" /\ pc'[c] = "idle") =>
          /\ (\A e \in DOMAIN episodes :
                episodes[e].job_id = arg[c].job =>
                  episodes[e].status \in TerminalEpisode)
               => episodes' = episodes
          /\ \A t \in now..MaxTime :
               cancel_job_episodes(episodes', arg[c].job, t) = episodes'
    ]_vars

\* cancel_job has returned on a job whose episode an earlier cascade had
\* failed: the job row carries the time of this call, the episode an earlier
\* one
C17_Witness ==
  /\ last.op = CANCEL /\ last.returned
  /\ last.job \in DOMAIN jobs
  /\ jobs[last.job].status = CANCELED
  /\ \E e \in DOMAIN episodes : episodes[e].job_id = last.job
  /\ \A e \in DOMAIN episodes :
       episodes[e].job_id = last.job =>
         /\ episodes[e].status = FAILED
         /\ episodes[e].error_message = CANCEL_MESSAGE
         /\ episodes[e].finished_at < jobs[last.job].finished_at

\* --------------------------------------- C4, C9: the job lifecycle
MaxJobCalls == 4

\* Every method that writes a job row, by any caller on any job id, in any
\* interleaving.
NextJobs ==
  \/ \E c \in Callers : CreateJob(c) /\ Begins(MaxJobCalls)
  \/ \E c \in Callers, j \in JobIds : ClaimJob(c, j) /\ Begins(MaxJobCalls)
  \/ \E c \in Callers, j \in JobIds, p \in Pids :
       StartJob(c, j, p, LOG_FILE) /\ Begins(MaxJobCalls)
  \/ \E c \in Callers, j \in JobIds, p \in Percents, st \in Stages :
       UpdateProgress(c, j, p, st, None) /\ Begins(MaxJobCalls)
  \/ \E c \in Callers, j \in JobIds, kw \in UpdateKwargs :
       UpdateJob(c, j, kw) /\ Begins(MaxJobCalls)
  \/ \E c \in Callers, j \in JobIds, ok \in BOOLEAN, m \in ErrorMessages :
       FinishJob(c, j, ok, m) /\ Begins(MaxJobCalls)
  \/ \E c \in Callers, j \in JobIds : CancelJob(c, j) /\ Begins(MaxJobCalls)
  \/ \E c \in Callers : CancelJobEpisodes(c) /\ Continues

SpecJobs == Init /\ [][NextJobs]_vars
\* the status changes the state machine of the specification allows
MachineTransitions ==
  {<<QUEUED, RUNNING>>, <<RUNNING, SUCCESS>>, <<RUNNING, FAILED>>,
   <<QUEUED, CANCELED>>, <<RUNNING, CANCELED>>}

\* C4 as stated: every change of a job's status is a transition of the state
\* machine.
C4_OnlyMachineTransitions ==
  [][ \A j \in DOMAIN jobs \cap DOMAIN jobs' :
        jobs'[j].status # jobs[j].status =>
          <<jobs[j].status, jobs'[j].status>> \in MachineTransitions ]_vars

\* C4 as amended: only claim_job, finish_job, cancel_job and update_job change
\* a job's status; claim_job changes it from QUEUED to RUNNING only, while
\* finish_job sets SUCCESS or FAILED and cancel_job sets CANCELED from
\* whatever status the job has, and update_job may set any status.
C4_StatusChangesByMethod ==
  [][ \A j \in DOMAIN jobs \cap DOMAIN jobs' :
        jobs'[j].status # jobs[j].status =>
          /\ j = last'.job
          /\ CASE last'.op = "claim_job" ->
                    jobs[j].status = QUEUED /\ jobs'[j].status = RUNNING
               [] last'.op = FINISH_SUCCESS -> jobs'[j].status = SUCCESS
               [] last'.op = FINISH_FAILURE -> jobs'[j].status = FAILED
               [] last'.op = CANCEL -> jobs'[j].status = CANCELED
               [] last'.op = "update_job" -> "status" \in DOMAIN last'.ret.kwargs
               [] OTHER -> FALSE ]_vars

\* cancel_job has just written CANCELED over a job that finish_job(success=
\* True) had completed (only that sets progress_percent 100 and stage DONE)
C4_Witness ==
  /\ last.op = CANCEL
  /\ last.job \in DOMAIN jobs
  /\ jobs[last.job].status = CANCELED
  /\ jobs[last.job].progress_percent = 100
  /\ jobs[last.job].stage = DONE

\* C9: an update_job call whose field map holds a name outside VALID_COLUMNS
\* raises ValueError and leaves the jobs table as it was, whatever other
\* fields it holds.
C9_InvalidColumnWritesNothing ==
  [][ (calls' # calls /\ last'.op = "update_job"
       /\ DOMAIN last'.ret.kwargs \ VALID_COLUMNS # {}) =>
        (last'.ret.raised = "ValueError" /\ jobs' = jobs) ]_vars

\* update_job was called on an existing job with an unknown field next to
\* allow-listed ones, and raised
C9_Witness ==
  /\ last.op = "update_job"
  /\ last.job \in DOMAIN jobs
  /\ DOMAIN last.ret.kwargs \ VALID_COLUMNS # {}
  /\ DOMAIN last.ret.kwargs \cap VALID_COLUMNS # {}
  /\ last.ret.raised = "ValueError"

\* ------------------------------------------------- C10: the active jobs
MaxActiveCalls == 4

\* Jobs are created, claimed, finished and cancelled while the clock advances,
\* and any caller lists the active jobs at any point.
NextActive ==
  \/ Tick /\ Continues
  \/ \E c \in Callers : CreateJob(c) /\ Begins(MaxActiveCalls)
  \/ \E c \in Callers, j \in JobIds : ClaimJob(c, j) /\ Begins(MaxActiveCalls)
  \/ \E c \in Callers, j \in JobIds, ok \in BOOLEAN :
       FinishJob(c, j, ok, None) /\ Begins(MaxActiveCalls)
  \/ \E c \in Callers, j \in JobIds : CancelJob(c, j) /\ Begins(MaxActiveCalls)
  \/ \E c \in Callers : CancelJobEpisodes(c) /\ Continues
  \/ \E c \in Callers : GetActiveJobs(c) /\ Begins(MaxActiveCalls)

SpecActive == Init /\ [][NextActive]_vars

\* C10: what get_active_jobs returns is exactly the jobs that are QUEUED or
\* RUNNING, each once, in ascending created_at order.
C10_ActiveJobs ==
  last.op = "get_active_jobs" =>
    LET rows == last.ret
        n == Cardinality(DOMAIN rows)
    IN /\ DOMAIN rows = 1..n
       /\ {rows[i] : i \in 1..n} =
            {j \in DOMAIN jobs : jobs[j].status \in {QUEUED, RUNNING}}
       /\ \A a, b \in 1..n : a # b => rows[a] # rows[b]
       /\ \A a, b \in 1..n :
            a < b => jobs[rows[a]].created_at <= jobs[rows[b]].created_at

\* get_active_jobs returned a job that is still active and left out one that
\* finish_job or cancel_job had ended
C10_Witness ==
  /\ last.op = "get_active_jobs"
  /\ DOMAIN last.ret # {}
  /\ \E j \in DOMAIN jobs :
       /\ jobs[j].status \in {SUCCESS, FAILED, CANCELED}
       /\ \A i \in DOMAIN last.ret : last.ret[i] # j
\* ------------------------------------------ C6, C7, C8: the retention purge
MaxPurgeCalls == 5

\* Jobs are created, claimed, finished and cancelled, episodes are created,
\* and the purge runs, by any caller in any interleaving.
NextPurge ==
  \/ \E c \in Callers : CreateJob(c) /\ Begins(MaxPurgeCalls)
  \/ \E c \in Callers, j \in JobIds : ClaimJob(c, j) /\ Begins(MaxPurgeCalls)
  \/ \E c \in Callers, j \in JobIds, ok \in BOOLEAN :
       FinishJob(c, j, ok, None) /\ Begins(MaxPurgeCalls)
  \/ \E c \in Callers, j \in JobIds : CancelJob(c, j) /\ Begins(MaxPurgeCalls)
  \/ \E c \in Callers : CancelJobEpisodes(c) /\ Continues
  \/ \E c \in Callers, j \in JobIds : CreateEpisode(c, j, 1) /\ Begins(MaxPurgeCalls)
  \/ \E c \in Callers : DeleteCount(c) /\ Begins(MaxPurgeCalls)
  \/ \E c \in Callers : DeleteJobs(c) /\ Continues

SpecPurge == Init /\ [][NextPurge]_vars

\* caller c's DELETE runs in this step, and returns
Deletes(c) == pc[c] = "delete" /\ pc'[c] = "idle"

\* no other transaction has run since caller c's own SELECT COUNT
Alone(c) == last.caller = c /\ last.op = DELETE_ALL /\ ~last.returned

\* C6: a purge that no other caller's transaction interleaves removes exactly
\* the jobs that are not RUNNING, leaves every RUNNING job's row and the rows
\* of its episodes as they were, and returns the number of jobs that were not
\* RUNNING and the number that were.
C6_PurgeAlone ==
  [][ \A c \in Callers :
        (Deletes(c) /\ Alone(c)) =>
          LET running == {j \in DOMAIN jobs : jobs[j].status = RUNNING}
          IN /\ DOMAIN jobs' = running
             /\ \A j \in running : jobs'[j] = jobs[j]
             /\ \A e \in DOMAIN episodes :
                  episodes[e].job_id \in running =>
                    e \in DOMAIN episodes' /\ episodes'[e] = episodes[e]
             /\ last'.ret = <<Cardinality(DOMAIN jobs \ running),
                              Cardinality(running)>>
    ]_vars

\* the purge returned having deleted a job and skipped a RUNNING one that has
\* an episode
C6_Witness ==
  /\ last.op = DELETE_ALL /\ last.returned
  /\ last.ret[1] >= 1 /\ last.ret[2] >= 1
  /\ \E e \in DOMAIN episodes :
       /\ episodes[e].job_id \in DOMAIN jobs
       /\ jobs[episodes[e].job_id].status = RUNNING

\* C7: in every reachable state the job_id of every episode row is the id of
\* an existing job row.
C7_NoOrphanEpisode ==
  \A e \in DOMAIN episodes : episodes[e].job_id \in DOMAIN jobs

\* C8: the skipped_count a purge returns is the number of jobs its DELETE left
\* in place, and deleted_count + skipped_count is the number of jobs present
\* when the DELETE ran, whatever other callers do meanwhile.
C8_PurgeCountsConsistent ==
  [][ \A c \in Callers :
        Deletes(c) =>
          /\ last'.ret[2] = Cardinality(DOMAIN jobs')
          /\ last'.ret[1] + last'.ret[2] = Cardinality(DOMAIN jobs)
    ]_vars

\* ----------------------------- C11, C14, C16, C20: the lifecycle of a job
MaxLifecycleCalls == 3

\* The lifecycle methods (create, claim, start, update_progress, finish and
\* cancel, the generic update_job left out), by any caller on any job id, in
\* any interleaving, while the clock advances.
NextLifecycle ==
  \/ Tick /\ Continues
  \/ \E c \in Callers : CreateJob(c) /\ Begins(MaxLifecycleCalls)
  \/ \E c \in Callers, j \in JobIds : ClaimJob(c, j) /\ Begins(MaxLifecycleCalls)
  \/ \E c \in Callers, j \in JobIds, p \in Pids :
       StartJob(c, j, p, LOG_FILE) /\ Begins(MaxLifecycleCalls)
  \/ \E c \in Callers, j \in JobIds, p \in Percents, st \in Stages :
       UpdateProgress(c, j, p, st, None) /\ Begins(MaxLifecycleCalls)
  \/ \E c \in Callers, j \in JobIds, ok \in BOOLEAN, m \in ErrorMessages :
       FinishJob(c, j, ok, m) /\ Begins(MaxLifecycleCalls)
  \/ \E c \in Callers, j \in JobIds : CancelJob(c, j) /\ Begins(MaxLifecycleCalls)
  \/ \E c \in Callers : CancelJobEpisodes(c) /\ Continues

SpecLifecycle == Init /\ [][NextLifecycle]_vars

\* C11: the transaction of finish_job(id, success=True) on an existing job
\* leaves it with status SUCCESS, progress_percent 100, stage DONE and a
\* finished_at; that of finish_job(id, success=False, error_message=m) leaves
\* it with status FAILED, a finished_at and error_message m.
C11_FinishJobFields ==
  [][ \A c \in Callers, j \in DOMAIN jobs, m \in ErrorMessages :
        /\ FinishJob(c, j, TRUE, m) =>
             /\ jobs'[j].status = SUCCESS
             /\ jobs'[j].progress_percent = 100
             /\ jobs'[j].stage = DONE
             /\ jobs'[j].finished_at # NULL
        /\ FinishJob(c, j, FALSE, m) =>
             /\ jobs'[j].status = FAILED
             /\ jobs'[j].finished_at # NULL
             /\ jobs'[j].error_message = m
    ]_vars

\* finish_job(success=False, error_message="boom") has returned on a job
\* created before the clock moved on
C11_Witness ==
  /\ last.op = FINISH_FAILURE /\ last.returned
  /\ last.job \in DOMAIN jobs
  /\ jobs[last.job].status = FAILED
  /\ jobs[last.job].error_message = "boom"
  /\ jobs[last.job].created_at < jobs[last.job].finished_at

\* C14: in every reachable state the progress_percent of every job and of
\* every episode is an integer in 0..100 (callers pass percents in 0..100).
C14_ProgressInRange ==
  /\ \A j \in DOMAIN jobs : jobs[j].progress_percent \in 0..100
  /\ \A e \in DOMAIN episodes : episodes[e].progress_percent \in 0..100

\* C16: claim_job(id) on a job that does not exist or is not QUEUED returns
\* False and changes nothing: every job has the status and the started_at it
\* had, and no row is written.
C16_FailedClaimChangesNothing ==
  [][ \A c \in Callers, j \in JobIds :
        (ClaimJob(c, j) /\ (j \notin DOMAIN jobs \/ jobs[j].status # QUEUED)) =>
          /\ last'.ret = FALSE
          /\ DOMAIN jobs' = DOMAIN jobs
          /\ \A i \in DOMAIN jobs :
               /\ jobs'[i].status = jobs[i].status
               /\ jobs'[i].started_at = jobs[i].started_at
          /\ jobs' = jobs
          /\ episodes' = episodes
    ]_vars

\* claim_job has returned False on a job that is RUNNING since before the
\* clock moved on
C16_Witness ==
  /\ last.op = "claim_job" /\ last.ret = FALSE
  /\ last.job \in DOMAIN jobs
  /\ jobs[last.job].status = RUNNING
  /\ jobs[last.job].started_at < now

\* C20: with update_job left out, a QUEUED job has neither started_at nor
\* finished_at, a RUNNING job has a started_at and no finished_at, and a job
\* that is SUCCESS, FAILED or CANCELED has a finished_at.
C20_TimestampsAgreeWithStatus ==
  \A j \in DOMAIN jobs :
    /\ jobs[j].status = QUEUED =>
         jobs[j].started_at = NULL /\ jobs[j].finished_at = NULL
    /\ jobs[j].status = RUNNING =>
         jobs[j].started_at # NULL /\ jobs[j].finished_at = NULL
    /\ jobs[j].status \in {SUCCESS, FAILED, CANCELED} =>
         jobs[j].finished_at # NULL

\* finish_job(success=True) has just finished a job that was claimed before
\* the clock moved on
C20_Witness ==
  \E j \in DOMAIN jobs :
       /\ jobs[j].status = SUCCESS
       /\ jobs[j].started_at # NULL
       /\ jobs[j].started_at < jobs[j].finished_at
       /\ last.op = FINISH_SUCCESS /\ last.job = j

\* ------------------------------------------ C12, C13: update_episode
MaxEpisodeCalls == 3

\* Episodes are created and updated, with or without a status, a
\* progress_percent and an error message, while the clock advances.
NextEpisode ==
  \/ Tick /\ Continues
  \/ \E c \in Callers, j \in JobIds : CreateEpisode(c, j, 1) /\ Begins(MaxEpisodeCalls)
  \/ \E c \in Callers, e \in EpisodeIds, st \in StatusUpdates \cup {None},
        p \in Percents \cup {NULL}, m \in ErrorMessages :
       UpdateEpisode(c, e, st, p, m) /\ Begins(MaxEpisodeCalls)

SpecEpisode == Init /\ [][NextEpisode]_vars

\* C12: an update_episode call with an active status on an episode that has a
\* started_at leaves that started_at as it was.
C12_StartedAtSetOnce ==
  [][ \A c \in Callers, e \in DOMAIN episodes,
         st \in StatusUpdates \cap ActiveEpisodeStatus,
         p \in Percents \cup {NULL}, m \in ErrorMessages :
        (UpdateEpisode(c, e, st, p, m) /\ episodes[e].started_at # NULL) =>
          episodes'[e].started_at = episodes[e].started_at
    ]_vars

\* C13: after an update_episode call with status COMPLETE on an existing
\* episode, whatever else the call supplies, the episode has status COMPLETE,
\* progress_percent 100 and a finished_at.
C13_CompleteForcesFullProgress ==
  [][ \A c \in Callers, e \in DOMAIN episodes,
         p \in Percents \cup {NULL}, m \in ErrorMessages :
        UpdateEpisode(c, e, COMPLETE, p, m) =>
          /\ episodes'[e].status = COMPLETE
          /\ episodes'[e].progress_percent = 100
          /\ episodes'[e].finished_at # NULL
    ]_vars

\* ------------------------------------------------ C15: storage failures
MaxFailureCalls == 4

\* One caller creates jobs and episodes, claims jobs, and fails and cancels
\* them while any transaction of finish_job and cancel_job may find the store
\* busy.
NextFailure ==
  \/ CreateJob(Solo) /\ Begins(MaxFailureCalls)
  \/ \E j \in JobIds : ClaimJob(Solo, j) /\ Begins(MaxFailureCalls)
  \/ \E j \in JobIds : CreateEpisode(Solo, j, 1) /\ Begins(MaxFailureCalls)
  \/ \E j \in JobIds, op \in {FINISH_FAILURE, CANCEL} :
       FinishOrCancelJob(Solo, j, op, "boom") /\ Begins(MaxFailureCalls)
  \/ \E j \in JobIds, op \in {FINISH_FAILURE, CANCEL} :
       FinishOrCancelJobBusy(Solo, j, op) /\ Begins(MaxFailureCalls)
  \/ CancelJobEpisodes(Solo) /\ Continues
  \/ CancelJobEpisodesBusy(Solo) /\ Continues

SpecFailure == Init /\ [][NextFailure]_vars

\* the status column of a jobs table
StatusOf(tbl) == [i \in DOMAIN tbl |-> tbl[i].status]

\* C15: a finish_job(id, success=False) or cancel_job(id) that reports a
\* storage failure has changed neither a job's status nor an episode; one that
\* returns normally has committed the job's status and the cascade.
C15_AllOrNothing ==
  [][ \A c \in Callers :
        /\ (pc[c] = "idle" /\ pc'[c] = "idle" /\ calls' # calls
            /\ last'.op \in {FINISH_FAILURE, CANCEL} /\ last'.ret = BUSY) =>
             (StatusOf(jobs') = StatusOf(jobs) /\ episodes' = episodes)
        /\ (pc[c] = "cancel_job_episodes" /\ pc'[c] = "idle") =>
             IF last'.ret = BUSY
               THEN /\ StatusOf(jobs') = StatusOf(arg[c].val.jobs)
                    /\ episodes' = arg[c].val.episodes
               ELSE /\ arg[c].job \in DOMAIN jobs' =>
                         jobs'[arg[c].job].status =
                           (IF arg[c].op = CANCEL THEN CANCELED ELSE FAILED)
                    /\ \A e \in DOMAIN episodes' :
                         episodes'[e].job_id = arg[c].job =>
                           episodes'[e].status \in TerminalEpisode
    ]_vars

\* ------------------------------------------------------- C18: init_db
MaxInitCalls == 4

\* a database file that no init_db has touched yet
InitFresh ==
  /\ jobs = EmptyMap
  /\ jobs_seq = 0
  /\ episodes = EmptyMap
  /\ episodes_seq = 0
  /\ now = 1
  /\ pc = [c \in Callers |-> "idle"]
  /\ arg = [c \in Callers |-> Idle]
  /\ last = [op |-> "__init__", caller |-> 0, job |-> 0, returned |-> TRUE, ret |-> None]
  /\ calls = 0
  /\ schema = {}

\* init_db runs at every start of the application, on a store that may be
\* busy; once the tables exist jobs are created and claimed.
NextInitDb ==
  \/ Tick /\ Continues
  \/ \E c \in Callers, create, o1, o2 \in {OK, DUPLICATE, BUSY} :
       InitDb(c, create, o1, o2) /\ Begins(MaxInitCalls)
  \/ \E c \in Callers : schema # {} /\ CreateJob(c) /\ Begins(MaxInitCalls)
  \/ \E c \in Callers, j \in JobIds :
       schema # {} /\ ClaimJob(c, j) /\ Begins(MaxInitCalls)

SpecInitDb == InitFresh /\ [][NextInitDb]_vars

\* C18: when a migration step of init_db raises an error other than the
\* column already existing, init_db reports it to the caller; and an init_db
\* that returns normally has left every migrated column in the table.
C18_OnlyAlreadyExistsSuppressed ==
  [][ \A c \in Callers, create, o1, o2 \in {OK, DUPLICATE, BUSY} :
        InitDb(c, create, o1, o2) =>
          /\ (create = OK /\ o1 \notin {OK, DUPLICATE}) => last'.ret = o1
          /\ (create = OK /\ o1 \in {OK, DUPLICATE} /\ o2 \notin {OK, DUPLICATE})
               => last'.ret = o2
          /\ last'.ret = None =>
               \A i \in DOMAIN migrations : migrations[i] \in schema'
    ]_vars

\* --------------------------------------------------- C19: the job ids
MaxIdCalls == 5

\* Jobs are created and claimed, episodes are created, and the purge runs, by
\* any caller in any interleaving.
NextIds ==
  \/ \E c \in Callers : CreateJob(c) /\ Begins(MaxIdCalls)
  \/ \E c \in Callers, j \in JobIds : ClaimJob(c, j) /\ Begins(MaxIdCalls)
  \/ \E c \in Callers, j \in JobIds : CreateEpisode(c, j, 1) /\ Begins(MaxIdCalls)
  \/ \E c \in Callers : DeleteCount(c) /\ Begins(MaxIdCalls)
  \/ \E c \in Callers : DeleteJobs(c) /\ Continues

SpecIds == Init /\ [][NextIds]_vars

\* C19: the id create_job returns is larger than every id returned before
\* (sqlite_sequence holds the largest, and no step lowers it), so it is the id
\* of no job that exists or was deleted, and of no job such a job's episodes
\* refer to.
C19_JobIdsNeverReused ==
  [][ /\ jobs_seq' >= jobs_seq
      /\ \A j \in DOMAIN jobs : j <= jobs_seq
      /\ \A c \in Callers :
           CreateJob(c) =>
             /\ last'.ret > jobs_seq
             /\ last'.ret \notin DOMAIN jobs
             /\ \A e \in DOMAIN episodes :
                  episodes[e].job_id <= jobs_seq =>
                    episodes[e].job_id # last'.ret
    ]_vars

\* create_job has returned a new id after the purge deleted a job that an
\* episode still refers to
C19_Witness ==
  /\ last.op = "create_job"
  /\ last.ret \in DOMAIN jobs
  /\ \E e \in DOMAIN episodes :
       /\ episodes[e].job_id < last.ret
       /\ episodes[e].job_id \notin DOMAIN jobs

====
